---- MODULE Spec2Model ----
(***************************************************************************)
(* Pause/filler removal pipeline of claude-obsidian-skills:                *)
(*   video-cleaning/edit_video_remove_pauses.py  (detect, merge, plan,     *)
(*                                                assemble with FFmpeg)    *)
(*   video-full-process/remap_chapters.py        (timestamp remapping)     *)
(*                                                                         *)
(* Time is counted in ticks of 0.05 s, the largest unit in which the       *)
(* program's constants (padding 0.1 s, tail buffer 0.15 s, minimum segment *)
(* duration 0.1 s) are whole numbers.                                      *)
(***************************************************************************)
EXTENDS Integers, Sequences, FiniteSets, TLC

\* ------------------------------------------------------------------ bounds
MaxTime == 5
MaxWords == 3
MaxThreshold == 2
MaxPadding == 2
AsmMaxWords == 2
AsmMaxTime == 5
MaxSkipIndicator == 1
InputMaxWords == 2
InputMaxTime == 3
RemapMaxWords == 2
MergeMaxTime == 4
MergeMaxCandidates == 2
FlowMaxWords == 2
FlowMaxTime == 3

\* ------------------------------------------------------- program constants
TAIL_BUFFER == 3
MIN_SEGMENT_DURATION == 2
SKIP_INDICATOR_DEFAULT == 100
LAST_CHAPTER_PLACEHOLDER_MS == 3600000

CLEAR_FILLERS == {"eo", "eum", "a", "i", "o", "jeo"}

\* Word texts of the model: one clear filler and one ordinary word.
Vocabulary == {"eum", "ne"}

\* Word texts of the wide transcripts: a padded clear filler, a clear filler
\* outside the three named in the module docstring, and the above.
WideVocabulary == {"eum", " eum ", "jeo", "ne"}

\* The three fillers named in the module docstring (lines 8-11).
DOCUMENTED_FILLERS == {"eo", "eum", "a"}

\* str.strip() on the word texts of the model.
strip(text) == IF text = " eum " THEN "eum" ELSE text

Max(a, b) == IF a >= b THEN a ELSE b
Min(a, b) == IF a <= b THEN a ELSE b

\* ------------------------------------------------------------------ inputs
\* Transcripts: words ordered by start (non-decreasing), end >= start.
WordsWithin(T) ==
    [word : Vocabulary, start : 0..T, end : 0..T]

RECURSIVE TranscriptsOfLen(_, _)
TranscriptsOfLen(n, T) ==
    IF n = 0 THEN {<<>>}
    ELSE {Append(ws, w) :
            <<ws, w>> \in
                {p \in TranscriptsOfLen(n - 1, T) \X WordsWithin(T) :
                    /\ p[2].start <= p[2].end
                    /\ Len(p[1]) > 0 =>
                           p[1][Len(p[1])].start <= p[2].start}}

Transcripts(n, T) == UNION {TranscriptsOfLen(k, T) : k \in 0..n}

\* Any content of the transcript file: word texts from the wide vocabulary,
\* words in any order (starts need not be non-decreasing).
WideWords(T) ==
    {w \in [word : WideVocabulary, start : 0..T, end : 0..T] :
        w.start <= w.end}

AnyTranscripts(n, T) == UNION {[1..k -> WideWords(T)] : k \in 0..n}

\* The word starts are non-decreasing.
MonotonicStarts(ws) ==
    \A i \in 1..(Len(ws) - 1) : ws[i].start <= ws[i + 1].start

\* ------------------------------------------------------------ detection
\* identify_pauses with a gap equal to the threshold left in place.
identify_pauses_strict(ws, threshold) ==
    LET n == Len(ws)
        upTo[i \in 0..Max(n - 1, 0)] ==
            IF i = 0 THEN <<>>
            ELSE LET current_end == ws[i].end
                     next_start == ws[i + 1].start
                     pause_duration == next_start - current_end
                 IN IF pause_duration > threshold
                    THEN Append(upTo[i - 1],
                                [start |-> current_end, end |-> next_start,
                                 duration |-> pause_duration])
                    ELSE upTo[i - 1]
    IN upTo[Max(n - 1, 0)]

identify_pauses(ws, threshold) ==
    LET n == Len(ws)
        upTo[i \in 0..Max(n - 1, 0)] ==
            IF i = 0 THEN <<>>
            ELSE LET current_end == ws[i].end
                     next_start == ws[i + 1].start
                     pause_duration == next_start - current_end
                 IN IF pause_duration >= threshold
                    THEN Append(upTo[i - 1],
                                [start |-> current_end, end |-> next_start,
                                 duration |-> pause_duration])
                    ELSE upTo[i - 1]
    IN upTo[Max(n - 1, 0)]

identify_filler_words(ws) ==
    LET n == Len(ws)
        upTo[i \in 0..n] ==
            IF i = 0 THEN <<>>
            ELSE IF strip(ws[i].word) \in CLEAR_FILLERS
                 THEN Append(upTo[i - 1],
                             [index |-> i - 1, word |-> strip(ws[i].word),
                              start |-> ws[i].start, end |-> ws[i].end])
                 ELSE upTo[i - 1]
    IN upTo[n]

\* ------------------------------------------------------------ merge
\* list.sort(key=start) is stable: an element goes after every element
\* already placed whose start is <= its own.
InsertByStart(sorted, x) ==
    LET k == Cardinality({j \in 1..Len(sorted) : sorted[j].start <= x.start})
    IN SubSeq(sorted, 1, k) \o <<x>> \o SubSeq(sorted, k + 1, Len(sorted))

\* The candidates left in the order given.
Unsorted(s) == s

SortByStart(s) ==
    LET upTo[i \in 0..Len(s)] ==
            IF i = 0 THEN <<>> ELSE InsertByStart(upTo[i - 1], s[i])
    IN upTo[Len(s)]

RemoveRanges(ps, fs) ==
    SortByStart(
        [i \in 1..Len(ps) |->
            [start |-> ps[i].start, end |-> ps[i].end,
             type |-> "pause", duration |-> ps[i].duration]]
        \o
        [i \in 1..Len(fs) |->
            [start |-> fs[i].start, end |-> fs[i].end,
             type |-> "filler", duration |-> 0]])

ShouldMergeStrict(open, r) == r.start < open.end

ShouldMerge(open, r) == r.start <= open.end

\* MergeStep with the kind of the open interval kept on a merge.
MergeStepFirstKind(merged, r) ==
    IF Len(merged) > 0 /\ ShouldMerge(merged[Len(merged)], r)
    THEN LET prev == merged[Len(merged)]
             new_type == prev.type
             new_duration == IF new_type = "pause"
                             THEN Max(prev.duration, r.duration) ELSE 0
         IN [merged EXCEPT ![Len(merged)] =
                [start |-> prev.start, end |-> Max(prev.end, r.end),
                 type |-> new_type, duration |-> new_duration]]
    ELSE Append(merged, r)

MergeStep(merged, r) ==
    IF Len(merged) > 0 /\ ShouldMerge(merged[Len(merged)], r)
    THEN LET prev == merged[Len(merged)]
             new_type == IF prev.type = "filler" \/ r.type = "filler"
                         THEN "filler" ELSE "pause"
             new_duration == IF new_type = "pause"
                             THEN Max(prev.duration, r.duration) ELSE 0
         IN [merged EXCEPT ![Len(merged)] =
                [start |-> prev.start, end |-> Max(prev.end, r.end),
                 type |-> new_type, duration |-> new_duration]]
    ELSE Append(merged, r)

MergedRemoves(ps, fs) ==
    LET rr == RemoveRanges(ps, fs)
        upTo[i \in 0..Len(rr)] ==
            IF i = 0 THEN <<>> ELSE MergeStep(upTo[i - 1], rr[i])
    IN upTo[Len(rr)]

\* ------------------------------------------------------------ plan
SegmentEndAll(r, tail_buffer) == r.start + tail_buffer

SegmentEnd(r, tail_buffer) ==
    IF r.type = "pause" THEN r.start + tail_buffer ELSE r.start

\* WalkStep with the cursor moved to the end of the removal only.
WalkStepNoPadding(st, r, pad, tail_buffer) ==
    [segs |-> IF st.current_time < r.start
              THEN Append(st.segs,
                          [start |-> st.current_time,
                           end |-> SegmentEnd(r, tail_buffer),
                           pause_dur |-> st.preceding_pause])
              ELSE st.segs,
     preceding_pause |-> IF r.type = "pause" THEN r.duration ELSE 0,
     current_time |-> r.end]

\* One iteration of the loop over merged_removes.
WalkStep(st, r, pad, tail_buffer) ==
    [segs |-> IF st.current_time < r.start
              THEN Append(st.segs,
                          [start |-> st.current_time,
                           end |-> SegmentEnd(r, tail_buffer),
                           pause_dur |-> st.preceding_pause])
              ELSE st.segs,
     preceding_pause |-> IF r.type = "pause" THEN r.duration ELSE 0,
     current_time |-> r.end + pad]

WalkState(merged, pad, tail_buffer) ==
    LET upTo[i \in 0..Len(merged)] ==
            IF i = 0
            THEN [segs |-> <<>>, preceding_pause |-> 0, current_time |-> 0]
            ELSE WalkStep(upTo[i - 1], merged[i], pad, tail_buffer)
    IN upTo[Len(merged)]

\* keep_segments before the minimum-duration filter.
WalkSegments(ws, merged, pad, tail_buffer) ==
    LET st == WalkState(merged, pad, tail_buffer)
    IN IF Len(ws) > 0 /\ st.current_time < ws[Len(ws)].end
       THEN Append(st.segs, [start |-> st.current_time,
                             end |-> ws[Len(ws)].end,
                             pause_dur |-> st.preceding_pause])
       ELSE st.segs

LongEnoughStrict(seg) == seg.end - seg.start > MIN_SEGMENT_DURATION

LongEnough(seg) == seg.end - seg.start >= MIN_SEGMENT_DURATION

generate_keep_segments(ws, ps, fs, pad, tail_buffer) ==
    SelectSeq(WalkSegments(ws, MergedRemoves(ps, fs), pad, tail_buffer),
              LongEnough)

\* ------------------------------------------------------------ remap
\* map_timestamp with the whole pause subtracted as soon as it has begun.
map_timestamp_no_snap(original_time, ps) ==
    LET removedUpTo[i \in 0..Len(ps)] ==
            IF i = 0 THEN 0
            ELSE IF ps[i].start < original_time
                 THEN removedUpTo[i - 1] + ps[i].duration
                 ELSE removedUpTo[i - 1]
    IN Max(0, original_time - removedUpTo[Len(ps)])

\* map_timestamp with a pause counted as removed only once the query time
\* is strictly after its end.
map_timestamp_open_end(original_time, ps) ==
    LET removedUpTo[i \in 0..Len(ps)] ==
            IF i = 0 THEN 0
            ELSE LET pause == ps[i]
                 IN IF pause.end < original_time
                    THEN removedUpTo[i - 1] + pause.duration
                    ELSE IF pause.start < original_time
                            /\ original_time < pause.end
                         THEN removedUpTo[i - 1]
                              + (original_time - pause.start)
                         ELSE removedUpTo[i - 1]
    IN Max(0, original_time - removedUpTo[Len(ps)])

\* map_timestamp with a pause counted as removed from its start on.
map_timestamp_from_start(original_time, ps) ==
    LET removedUpTo[i \in 0..Len(ps)] ==
            IF i = 0 THEN 0
            ELSE LET pause == ps[i]
                 IN IF pause.start <= original_time
                    THEN removedUpTo[i - 1] + pause.duration
                    ELSE removedUpTo[i - 1]
    IN Max(0, original_time - removedUpTo[Len(ps)])

map_timestamp(original_time, ps) ==
    LET removedUpTo[i \in 0..Len(ps)] ==
            IF i = 0 THEN 0
            ELSE LET pause == ps[i]
                 IN IF pause.end <= original_time
                    THEN removedUpTo[i - 1] + pause.duration
                    ELSE IF pause.start < original_time
                            /\ original_time < pause.end
                         THEN removedUpTo[i - 1]
                              + (original_time - pause.start)
                         ELSE removedUpTo[i - 1]
    IN Max(0, original_time - removedUpTo[Len(ps)])

\* A chapters file is [shape, chapters]: shape "list" is a JSON list of
\* chapters, shapes "chapters" and "suggestions" are a JSON object holding
\* the list under that key.  A chapter is [format, start]: format "dict" is
\* an object with a "start" key, format "list" is [start, title, ...].
\*
\* remap_chapters: with no pauses the input is returned as it is; otherwise
\* the result holds, under "chapters", one entry per input chapter in input
\* order: a dict chapter gets its new start and "original_start", a list
\* chapter becomes [new_start, title, description].
remap_chapters(chapters_data, pauses_data) ==
    LET ps == SortByStart(pauses_data.pauses)
        chapters == chapters_data.chapters
        remapped_chapter(ch) ==
            IF ch.format = "list"
            THEN [format |-> "list",
                  start |-> map_timestamp(ch.start, ps)]
            ELSE [format |-> "dict",
                  start |-> map_timestamp(ch.start, ps),
                  original_start |-> ch.start]
    IN IF Len(pauses_data.pauses) = 0 THEN chapters_data
       ELSE [shape |-> "chapters",
             chapters |-> [i \in 1..Len(chapters) |->
                              remapped_chapter(chapters[i])]]

\* int(seconds * 1000) for a time in ticks of 0.05 s.
Millis(t) == t * 50

\* format_timestamp for a time in ticks: hours, minutes, whole seconds.
format_timestamp(t) ==
    LET seconds == t \div 20
    IN [hours |-> seconds \div 3600,
        minutes |-> (seconds % 3600) \div 60,
        secs |-> seconds % 60]

\* The [CHAPTER] entries of generate_ffmpeg_metadata, in order.
generate_ffmpeg_metadata(chapters) ==
    [i \in 1..Len(chapters) |->
        LET start_ms == Millis(chapters[i].start)
        IN [START |-> start_ms,
            END |-> IF i + 1 <= Len(chapters)
                    THEN Millis(chapters[i + 1].start) - 1
                    ELSE start_ms + LAST_CHAPTER_PLACEHOLDER_MS]]

\* The chapter lines of generate_youtube_chapters, in order.
generate_youtube_chapters(chapters) ==
    [i \in 1..Len(chapters) |-> format_timestamp(chapters[i].start)]

\* ------------------------------------------------------------ state
VARIABLES
    video_exists,     \* the media file args.video_file exists
    chapters_file,    \* the chapters JSON file handed to the remap job
    words,            \* transcript["words"]
    pause_threshold,  \* args.pause_threshold
    padding,          \* args.padding
    preview,          \* args.preview
    skip_indicator,   \* args.skip_indicator
    pc,               \* position of edit_video_remove_pauses.main
    pauses,           \* identify_pauses(...)
    fillers,          \* identify_filler_words(...)
    pauses_file,      \* the --output-pauses file
    merged_removes,   \* the list merged_removes of generate_keep_segments
    keep_segments,    \* generate_keep_segments(...)
    report_file,      \* the edit report file
    exit_status,      \* exit status of the edit job, or NoStatus
    asm_pc,           \* position inside edit_video_with_ffmpeg
    temp_dir,         \* TRUE while the job's temporary directory exists
    clips,            \* clip files inside temp_dir: segment index -> content
    segment_files,    \* the list segment_files
    seg_i,            \* loop index i
    tool,             \* the external process: none, running, hung
    tool_log,         \* every finished external call, with its outcome
    concat_input,     \* clip list handed to the concat, or NotInvoked
    output_file,      \* file at output_path
    ret,              \* how edit_video_with_ffmpeg is leaving
    remapped,         \* the remapped chapters file
    youtube_file,     \* the YouTube chapters text file
    ffmetadata,       \* the FFmpeg chapter metadata file
    embed_output,     \* the video file written by embed_chapters
    remap_status,     \* exit status of the remap job, or NoStatus
    remap_args,       \* the outputs the remap job was asked for, once run
    wf_args,          \* process_video: the parsed command line flags
    wf_pc,            \* process_video: position of main
    wf_status,        \* process_video: exit status, or NoStatus
    wf_log,           \* process_video: every run_script call with its result
    transcript_exists, \* the file at transcript_path exists
    chapters_path,    \* the file at chapters_path (chapter suggestions)
    embed_remapped    \* the remapped file written by the embed step's job

plan_vars == <<video_exists, chapters_file, words, pause_threshold, padding,
               preview, skip_indicator, pc, pauses, fillers, pauses_file,
               merged_removes, keep_segments, report_file, exit_status>>
asm_vars == <<asm_pc, temp_dir, clips, segment_files, seg_i, tool, tool_log,
              concat_input, output_file, ret>>
remap_vars == <<remapped, youtube_file, ffmetadata, embed_output,
                remap_status, remap_args>>
flow_vars == <<wf_args, wf_pc, wf_status, wf_log, transcript_exists,
               chapters_path, embed_remapped>>
vars == <<plan_vars, asm_vars, remap_vars, flow_vars>>

\* A file that may be missing is a sequence: empty, or its one content.
NoFile == <<>>
File(content) == <<content>>
NoStatus == -1
NotInvoked == <<>>

\* One chapter at every tick, in order, in the given chapter format.
ChaptersAtEveryTick(format) ==
    [i \in 1..(MaxTime + 1) |-> [format |-> format, start |-> i - 1]]

\* The chapters file of the planner runs: dict chapters under "chapters".
ChapterLists ==
    {[shape |-> "chapters", chapters |-> ChaptersAtEveryTick("dict")]}

\* Every accepted chapters file: each shape with each chapter format.
ChapterFiles ==
    {[shape |-> shape, chapters |-> ChaptersAtEveryTick(format)] :
        shape \in {"list", "chapters", "suggestions"},
        format \in {"dict", "list"}}

\* process_video is not running: the jobs are launched by hand.
FlowOff ==
    /\ wf_args = NoFile
    /\ wf_pc = "off"
    /\ wf_status = NoStatus
    /\ wf_log = <<>>
    /\ transcript_exists = TRUE
    /\ chapters_path = NoFile
    /\ embed_remapped = NoFile

InitJobs(transcripts, thresholds, paddings, previews, indicators, videos, files) ==
    /\ words \in transcripts
    /\ video_exists \in videos
    /\ chapters_file \in files
    /\ pause_threshold \in thresholds
    /\ padding \in paddings
    /\ preview \in previews
    /\ skip_indicator \in indicators
    /\ pc = "start"
    /\ pauses = <<>>
    /\ fillers = <<>>
    /\ pauses_file = NoFile
    /\ merged_removes = <<>>
    /\ keep_segments = <<>>
    /\ report_file = NoFile
    /\ exit_status = NoStatus
    /\ asm_pc = "idle"
    /\ temp_dir = FALSE
    /\ clips = <<>>
    /\ segment_files = <<>>
    /\ seg_i = 0
    /\ tool = "none"
    /\ tool_log = <<>>
    /\ concat_input = NotInvoked
    /\ output_file = [state |-> "absent", clips |-> <<>>]
    /\ ret = "none"
    /\ remapped = NoFile
    /\ youtube_file = NoFile
    /\ ffmetadata = NoFile
    /\ embed_output = "absent"
    /\ remap_status = NoStatus
    /\ remap_args = NoFile

InitWith(transcripts, thresholds, paddings, previews, indicators, videos, files) ==
    /\ InitJobs(transcripts, thresholds, paddings, previews, indicators,
                videos, files)
    /\ FlowOff

\* Preview runs of the editor over every transcript within the bounds.
Init == InitWith(Transcripts(MaxWords, MaxTime), 1..MaxThreshold,
                 0..MaxPadding, {TRUE}, {SKIP_INDICATOR_DEFAULT}, {TRUE},
                 ChapterLists)

\* Full runs (cut and concat) over a smaller family of transcripts.
InitAsm == InitWith(Transcripts(AsmMaxWords, AsmMaxTime), 1..MaxThreshold,
                    0..MaxPadding, {FALSE}, 0..MaxSkipIndicator, {TRUE},
                    ChapterLists)

SumDurations(segs) ==
    LET upTo[i \in 0..Len(segs)] ==
            IF i = 0 THEN 0
            ELSE upTo[i - 1] + (segs[i].end - segs[i].start)
    IN upTo[Len(segs)]

\* main, from argument validation to the preview exit or the call of
\* edit_video_with_ffmpeg, launched with --output-pauses as process_video
\* launches it.
EditMain ==
    /\ pc = "start"
    /\ IF ~video_exists \/ Len(words) = 0
       THEN /\ pc' = "exit"
            /\ exit_status' = 1
            /\ UNCHANGED <<pauses, fillers, pauses_file, merged_removes,
                           keep_segments, report_file>>
       ELSE LET ps == identify_pauses(words, pause_threshold)
                fs == identify_filler_words(words)
                segs == generate_keep_segments(words, ps, fs, padding,
                                               TAIL_BUFFER)
                original_duration == words[Len(words)].end
            IN /\ pauses' = ps
               /\ fillers' = fs
               /\ pauses_file' = File([pauses |-> ps, fillers |-> fs])
               /\ merged_removes' = MergedRemoves(ps, fs)
               /\ keep_segments' = segs
               /\ IF original_duration = 0
                  THEN \* generate_report divides by original_duration
                       /\ report_file' = report_file
                       /\ pc' = "exit"
                       /\ exit_status' = 1
                  ELSE /\ report_file' =
                            File([edited_duration |-> SumDurations(segs),
                                  time_saved |-> original_duration
                                                 - SumDurations(segs)])
                       /\ IF preview
                          THEN pc' = "exit" /\ exit_status' = 0
                          ELSE pc' = "edit" /\ exit_status' = exit_status
    /\ UNCHANGED <<video_exists, chapters_file, words, pause_threshold,
                   padding, preview, skip_indicator>>
    /\ UNCHANGED <<asm_vars, remap_vars, flow_vars>>

\* remapped["chapters"] can be read: the result is an object with that key.
HasChaptersKey(result) == result.shape = "chapters"

\* ch.get(...) works on every chapter: each one is an object.
AllDicts(result) ==
    \A i \in 1..Len(result.chapters) : result.chapters[i].format = "dict"

\* What FFmpeg can leave at the embed output path when it fails.
EmbedUnfinished == {embed_output, "partial"}

\* remap_chapters.py main, run on the removal record of the finished edit
\* job, with or without --youtube and with or without --video naming the
\* edited artifact.  An uncaught exception ends the job with status 1.
RemapJob ==
    /\ pc = "exit"
    /\ exit_status = 0
    /\ pauses_file # NoFile
    /\ remap_status = NoStatus
    /\ LET result == remap_chapters(chapters_file, pauses_file[1])
           readable == HasChaptersKey(result) /\ AllDicts(result)
       IN /\ remapped' = File(result)
          /\ \E youtube, video \in BOOLEAN :
                /\ remap_args' = File([youtube |-> youtube, video |-> video])
                /\ youtube_file' =
                      IF youtube /\ readable
                      THEN File(generate_youtube_chapters(result.chapters))
                      ELSE youtube_file
                /\ IF youtube /\ ~readable
                   THEN /\ remap_status' = 1
                        /\ UNCHANGED <<ffmetadata, embed_output>>
                   ELSE IF ~video
                   THEN /\ remap_status' = 0
                        /\ UNCHANGED <<ffmetadata, embed_output>>
                   ELSE IF output_file.state = "absent" \/ ~readable
                   THEN /\ remap_status' = 1
                        /\ UNCHANGED <<ffmetadata, embed_output>>
                   ELSE /\ ffmetadata' =
                             File(generate_ffmpeg_metadata(result.chapters))
                        /\ \E returncode \in {0, 1} :
                              IF returncode = 0
                              THEN /\ embed_output' = "complete"
                                   /\ remap_status' = 0
                              ELSE /\ embed_output' \in EmbedUnfinished
                                   /\ remap_status' = 1
    /\ UNCHANGED <<plan_vars, asm_vars, flow_vars>>

Next == EditMain \/ RemapJob

Spec == Init /\ [][Next]_vars

\* ------------------------------------------------------------ assembler
\* edit_video_with_ffmpeg, entered from main: mkdtemp, segment_files = [].
AsmEnter ==
    /\ pc = "edit"
    /\ asm_pc = "idle"
    /\ asm_pc' = "loop"
    /\ temp_dir' = TRUE
    /\ segment_files' = <<>>
    /\ seg_i' = 0
    /\ UNCHANGED <<plan_vars, remap_vars, flow_vars, clips, tool, tool_log, concat_input,
                   output_file, ret>>

\* The FFmpeg command built for keep segment i (0-based).
CutCommand(i) ==
    LET seg == keep_segments[i + 1]
    IN [i |-> i, ss |-> seg.start, t |-> seg.end - seg.start,
        drawtext |-> skip_indicator > 0 /\ seg.pause_dur >= skip_indicator]

\* One loop iteration up to the call of subprocess.run for the cut.
CutStart ==
    /\ asm_pc = "loop"
    /\ seg_i < Len(keep_segments)
    /\ segment_files' = Append(segment_files, seg_i)
    /\ tool' = "running"
    /\ asm_pc' = "cut_run"
    /\ UNCHANGED <<plan_vars, remap_vars, flow_vars, temp_dir, clips, seg_i, tool_log,
                   concat_input, output_file, ret>>

Outcome(returncode) == IF returncode = 0 THEN "ok" ELSE "nonzero"

AfterFailedCutContinue == "loop"

AfterFailedCut == "finally"

\* subprocess.run returns for the cut: returncode 0 leaves the clip in
\* temp_dir and the loop goes on; any other returncode returns False.
CutReturns ==
    /\ asm_pc = "cut_run"
    /\ tool = "running"
    /\ tool' = "none"
    /\ \E returncode \in {0, 1} :
          /\ tool_log' = Append(tool_log, [op |-> "cut", i |-> seg_i,
                                          outcome |-> Outcome(returncode)])
          /\ IF returncode = 0
             THEN /\ clips' = clips @@ (seg_i :> CutCommand(seg_i))
                  /\ seg_i' = seg_i + 1
                  /\ asm_pc' = "loop"
                  /\ ret' = ret
             ELSE /\ clips' = clips
                  /\ seg_i' = IF AfterFailedCut = "loop"
                              THEN seg_i + 1 ELSE seg_i
                  /\ asm_pc' = AfterFailedCut
                  /\ ret' = "false"
    /\ UNCHANGED <<plan_vars, remap_vars, flow_vars, temp_dir, segment_files,
                   concat_input, output_file>>

ConcatListDropLast ==
    [k \in 1..(Len(segment_files) - 1) |-> segment_files[k]]

\* The lines of concat_list.txt: one per entry of segment_files, in order.
ConcatList == [k \in 1..Len(segment_files) |-> segment_files[k]]

\* After the loop: write concat_list.txt and call subprocess.run for the
\* concat, which is given output_path.
ConcatStart ==
    /\ asm_pc = "loop"
    /\ seg_i = Len(keep_segments)
    /\ concat_input' = <<ConcatList>>
    /\ tool' = "running"
    /\ asm_pc' = "concat_run"
    /\ UNCHANGED <<plan_vars, remap_vars, flow_vars, temp_dir, clips, segment_files,
                   seg_i, tool_log, output_file, ret>>

\* What FFmpeg can leave at output_path when it does not finish: nothing
\* new, or a partly written file (it writes straight to output_path).
Unfinished == {output_file, [state |-> "partial", clips |-> <<>>]}

\* subprocess.run returns for the concat.
ConcatReturns ==
    /\ asm_pc = "concat_run"
    /\ tool = "running"
    /\ tool' = "none"
    /\ asm_pc' = "finally"
    /\ \E returncode \in {0, 1} :
          /\ tool_log' = Append(tool_log, [op |-> "concat", i |-> seg_i,
                                          outcome |-> Outcome(returncode)])
          /\ IF returncode = 0
             THEN /\ output_file' =
                       [state |-> "complete",
                        clips |-> [k \in 1..Len(concat_input[1]) |->
                                      clips[concat_input[1][k]]]]
                  /\ ret' = "true"
             ELSE /\ output_file' \in Unfinished
                  /\ ret' = "false"
    /\ UNCHANGED <<plan_vars, remap_vars, flow_vars, temp_dir, clips, segment_files,
                   seg_i, concat_input>>

\* subprocess.run raises (FFmpeg cannot be started): except Exception.
ToolRaises ==
    /\ asm_pc \in {"cut_run", "concat_run"}
    /\ tool = "running"
    /\ tool' = "none"
    /\ ret' = "false"
    /\ asm_pc' = "finally"
    /\ tool_log' = Append(tool_log,
                          [op |-> IF asm_pc = "cut_run" THEN "cut"
                                  ELSE "concat",
                           i |-> seg_i, outcome |-> "raised"])
    /\ UNCHANGED <<plan_vars, remap_vars, flow_vars, temp_dir, clips, segment_files,
                   seg_i, concat_input, output_file>>

\* The external process never exits; subprocess.run is called without a
\* timeout, so it never returns.
ToolHangs ==
    /\ asm_pc \in {"cut_run", "concat_run"}
    /\ tool = "running"
    /\ tool' = "hung"
    /\ UNCHANGED <<plan_vars, remap_vars, flow_vars, asm_pc, temp_dir, clips,
                   segment_files, seg_i, tool_log, concat_input, output_file,
                   ret>>

\* KeyboardInterrupt inside the try block: not an Exception, so only the
\* finally clause runs and the interrupt leaves the function.
Cancel ==
    /\ asm_pc \in {"loop", "cut_run", "concat_run"}
    /\ tool' = "none"
    /\ ret' = "interrupt"
    /\ asm_pc' = "finally"
    /\ IF asm_pc = "concat_run"
       THEN output_file' \in Unfinished
       ELSE output_file' = output_file
    /\ UNCHANGED <<plan_vars, remap_vars, flow_vars, temp_dir, clips, segment_files,
                   seg_i, tool_log, concat_input>>

RunsCleanupOnSuccess(how) == how = "true"

\* The cleanup sits in a finally clause: it runs however the body ends.
RunsCleanup(how) == how \in {"true", "false", "interrupt"}

\* finally: shutil.rmtree(temp_dir), then the function is left.
Finally ==
    /\ asm_pc = "finally"
    /\ asm_pc' = "left"
    /\ IF RunsCleanup(ret)
       THEN temp_dir' = FALSE /\ clips' = <<>>
       ELSE UNCHANGED <<temp_dir, clips>>
    /\ UNCHANGED <<plan_vars, remap_vars, flow_vars, segment_files, seg_i, tool, tool_log,
                   concat_input, output_file, ret>>

\* main after edit_video_with_ffmpeg: status 0 on True, 1 on False; an
\* interrupt ends the process with the status of SIGINT.
MainExit ==
    /\ pc = "edit"
    /\ asm_pc = "left"
    /\ pc' = "exit"
    /\ exit_status' = CASE ret = "true" -> 0
                         [] ret = "false" -> 1
                         [] OTHER -> 130
    /\ UNCHANGED <<video_exists, chapters_file, words, pause_threshold,
                   padding, preview, skip_indicator, pauses, fillers,
                   pauses_file, merged_removes, keep_segments, report_file>>
    /\ UNCHANGED <<asm_vars, remap_vars, flow_vars>>

\* The steps of a running edit job, from the call of edit_video_with_ffmpeg
\* to the exit of main.
AsmStep ==
    \/ AsmEnter
    \/ CutStart
    \/ CutReturns
    \/ ConcatStart
    \/ ConcatReturns
    \/ ToolRaises
    \/ ToolHangs
    \/ Finally
    \/ MainExit

NextAsm == EditMain \/ AsmStep \/ RemapJob \/ Cancel

SpecAsm == InitAsm /\ [][NextAsm]_vars

\* A running job keeps executing: its steps are taken whenever they stay
\* enabled.  Launching a job (EditMain, RemapJob) and interrupting it
\* (Cancel) are the user's choice and carry no fairness.
FairSpecAsm == SpecAsm /\ WF_vars(AsmStep)

\* Runs on any transcript file content (words in any order, padded word
\* texts, every clear filler kind), with the media file present or missing,
\* in preview mode or not.
InitInput == InitWith(AnyTranscripts(InputMaxWords, InputMaxTime),
                      1..MaxThreshold, 0..MaxPadding, BOOLEAN,
                      {SKIP_INDICATOR_DEFAULT}, BOOLEAN, ChapterLists)

SpecInput == InitInput /\ [][NextAsm]_vars

\* Preview runs followed by the remap job on every accepted chapters file.
InitRemap == InitWith(Transcripts(RemapMaxWords, MaxTime), 1..MaxThreshold,
                      0..MaxPadding, {TRUE}, {SKIP_INDICATOR_DEFAULT},
                      {TRUE}, ChapterFiles)

SpecRemap == InitRemap /\ [][Next]_vars

\* Preview runs with a skip-indicator threshold that detected pauses reach.
InitSkip == InitWith(Transcripts(MaxWords, MaxTime), 1..MaxThreshold,
                     0..MaxPadding, {TRUE}, 1..MaxSkipIndicator, {TRUE},
                     ChapterLists)

SpecSkip == InitSkip /\ [][Next]_vars

\* ------------------------------------------------------------ workflow
\* process_video.py main.  Each run_script call is a blocking subprocess:
\* the transcriber, the chapter detector and the document generator are
\* external and return success or failure; the edit job runs as modelled
\* above; the remap job is remap_chapters.py main with the arguments the
\* workflow passes.

\* The chapters file suggest_chapters.py writes: dict chapters under
\* "suggestions".
SuggestionFiles ==
    {[shape |-> "suggestions", chapters |-> ChaptersAtEveryTick("dict")]}

WorkflowArgs ==
    [preview : BOOLEAN, skip_transcribe : BOOLEAN, skip_clean : BOOLEAN,
     skip_chapters : BOOLEAN, no_embed_chapters : BOOLEAN,
     force_transcribe : BOOLEAN]

\* The edit script is launched with --pause-threshold only: padding and
\* skip indicator keep their defaults (0.1 s, 5.0 s).
DEFAULT_PADDING == 2

InitFlow ==
    /\ InitJobs(Transcripts(FlowMaxWords, FlowMaxTime), 1..MaxThreshold,
                {DEFAULT_PADDING}, BOOLEAN, {SKIP_INDICATOR_DEFAULT},
                BOOLEAN, SuggestionFiles)
    /\ wf_args \in {File(a) : a \in {b \in WorkflowArgs : b.preview = preview}}
    /\ wf_pc = "start"
    /\ wf_status = NoStatus
    /\ wf_log = <<>>
    /\ transcript_exists \in BOOLEAN
    /\ chapters_path = NoFile
    /\ embed_remapped = NoFile

Args == wf_args[1]

\* run_script returned: the call and its result are on record.
Logged(script, ok) == Append(wf_log, [script |-> script, ok |-> ok])

\* return 1 / return 0 of main.
FlowReturn(status) ==
    /\ wf_pc' = "done"
    /\ wf_status' = status

FlowGoto(step) ==
    /\ wf_pc' = step
    /\ wf_status' = wf_status

\* Input validation: the video must exist.
FlowValidate ==
    /\ wf_pc = "start"
    /\ IF video_exists THEN FlowGoto("step1") ELSE FlowReturn(1)
    /\ UNCHANGED <<plan_vars, asm_vars, remap_vars, wf_args, wf_log,
                   transcript_exists, chapters_path, embed_remapped>>

\* Step 1: transcription.
FlowTranscribe ==
    /\ wf_pc = "step1"
    /\ IF transcript_exists /\ ~Args.force_transcribe
       THEN FlowGoto("step2") /\ UNCHANGED <<wf_log, transcript_exists>>
       ELSE IF Args.skip_transcribe /\ ~transcript_exists
       THEN FlowReturn(1) /\ UNCHANGED <<wf_log, transcript_exists>>
       ELSE IF Args.skip_transcribe \/ Args.preview
       THEN FlowGoto("step2") /\ UNCHANGED <<wf_log, transcript_exists>>
       ELSE \E ok \in BOOLEAN :
               /\ wf_log' = Logged("transcribe", ok)
               /\ IF ok
                  THEN FlowGoto("step2") /\ transcript_exists' = TRUE
                  ELSE FlowReturn(1) /\ UNCHANGED transcript_exists
    /\ UNCHANGED <<plan_vars, asm_vars, remap_vars, wf_args, chapters_path,
                   embed_remapped>>

\* Step 2: chapter detection; on success the suggestions file is written.
FlowDetect ==
    /\ wf_pc = "step2"
    /\ IF Args.skip_chapters
       THEN FlowGoto("step3") /\ UNCHANGED <<wf_log, chapters_path>>
       ELSE IF ~transcript_exists
       THEN FlowReturn(1) /\ UNCHANGED <<wf_log, chapters_path>>
       ELSE IF Args.preview
       THEN FlowGoto("step3") /\ UNCHANGED <<wf_log, chapters_path>>
       ELSE \E ok \in BOOLEAN :
               /\ wf_log' = Logged("detect", ok)
               /\ chapters_path' =
                     IF ok THEN File(chapters_file) ELSE chapters_path
               /\ FlowGoto("step3")
    /\ UNCHANGED <<plan_vars, asm_vars, remap_vars, wf_args,
                   transcript_exists, embed_remapped>>

\* Step 3: video cleaning, up to the launch of the edit script (with
\* --preview in preview mode).
FlowClean ==
    /\ wf_pc = "step3"
    /\ IF Args.skip_clean THEN FlowGoto("step4")
       ELSE IF ~transcript_exists THEN FlowReturn(1)
       ELSE FlowGoto("step3_run")
    /\ UNCHANGED <<plan_vars, asm_vars, remap_vars, wf_args, wf_log,
                   transcript_exists, chapters_path, embed_remapped>>

\* The launched edit job runs.
FlowEditJob ==
    /\ wf_pc = "step3_run"
    /\ EditMain \/ AsmStep

\* The edit job has exited: its status is ignored in preview mode and
\* fatal otherwise.
FlowCleanReturns ==
    /\ wf_pc = "step3_run"
    /\ pc = "exit"
    /\ wf_log' = Logged("clean", exit_status = 0)
    /\ IF Args.preview \/ exit_status = 0
       THEN FlowGoto("step4") ELSE FlowReturn(1)
    /\ UNCHANGED <<plan_vars, asm_vars, remap_vars, wf_args,
                   transcript_exists, chapters_path, embed_remapped>>

\* remap_chapters.py main (lines 241-286) on existing input files: the
\* files it writes and its exit status.  An uncaught exception ends the
\* job with status 1 after the files written so far.
RemapRun(chapters_data, pauses_data, youtube, video, video_present, returncode) ==
    LET result == remap_chapters(chapters_data, pauses_data)
        readable == HasChaptersKey(result) /\ AllDicts(result)
        embeds == video /\ video_present /\ readable /\ ~(youtube /\ ~readable)
    IN [remapped |-> File(result),
        youtube |-> IF youtube /\ readable
                    THEN File(generate_youtube_chapters(result.chapters))
                    ELSE NoFile,
        ffmetadata |-> IF embeds
                       THEN File(generate_ffmpeg_metadata(result.chapters))
                       ELSE NoFile,
        embedded |-> embeds /\ returncode = 0,
        status |-> IF youtube /\ ~readable THEN 1
                   ELSE IF ~video THEN 0
                   ELSE IF ~embeds \/ returncode # 0 THEN 1
                   ELSE 0]

Written(new, old) == IF new # NoFile THEN new ELSE old

\* Step 4: chapter remapping, with --output chapters_remapped_path and
\* --youtube.
FlowRemap ==
    /\ wf_pc = "step4"
    /\ FlowGoto("step5")
    /\ IF \/ Args.skip_chapters \/ Args.skip_clean
          \/ chapters_path = NoFile \/ pauses_file = NoFile
          \/ Args.preview
       THEN UNCHANGED <<wf_log, remapped, youtube_file, remap_status,
                        remap_args>>
       ELSE LET run == RemapRun(chapters_path[1], pauses_file[1],
                                TRUE, FALSE, FALSE, 0)
            IN /\ remapped' = run.remapped
               /\ youtube_file' = Written(run.youtube, youtube_file)
               /\ remap_status' = run.status
               /\ remap_args' = File([youtube |-> TRUE, video |-> FALSE])
               /\ wf_log' = Logged("remap", run.status = 0)
    /\ UNCHANGED <<plan_vars, asm_vars, ffmetadata, embed_output, wf_args,
                   transcript_exists, chapters_path, embed_remapped>>

\* chapters_remapped_path if it exists, else chapters_path.
SourceChapters == IF remapped # NoFile THEN remapped ELSE chapters_path

\* Step 5: embedding, by a second remap job on the source chapters with
\* --video (the cleaned video if it exists, else the original) and
\* --embed-output; the job writes its remapped file next to its input.
FlowEmbed ==
    /\ wf_pc = "step5"
    /\ FlowGoto("step6")
    /\ IF \/ Args.skip_chapters \/ Args.no_embed_chapters \/ Args.skip_clean
          \/ SourceChapters = NoFile \/ Args.preview
          \/ pauses_file = NoFile
       THEN UNCHANGED <<wf_log, embed_remapped, ffmetadata, embed_output,
                        remap_status, remap_args>>
       ELSE \E returncode \in {0, 1} :
             LET run == RemapRun(SourceChapters[1], pauses_file[1],
                                 FALSE, TRUE, TRUE, returncode)
             IN /\ embed_remapped' = run.remapped
                /\ ffmetadata' = Written(run.ffmetadata, ffmetadata)
                /\ embed_output' \in
                      IF run.embedded THEN {"complete"}
                      ELSE IF run.ffmetadata # NoFile THEN EmbedUnfinished
                      ELSE {embed_output}
                /\ remap_status' = run.status
                /\ remap_args' = File([youtube |-> FALSE, video |-> TRUE])
                /\ wf_log' = Logged("embed", run.status = 0)
    /\ UNCHANGED <<plan_vars, asm_vars, remapped, youtube_file, wf_args,
                   transcript_exists, chapters_path>>

\* Step 6: documentation, then the summary and return 0.
FlowDocs ==
    /\ wf_pc = "step6"
    /\ FlowReturn(0)
    /\ IF Args.skip_chapters \/ SourceChapters = NoFile \/ Args.preview
       THEN UNCHANGED wf_log
       ELSE \E ok \in BOOLEAN : wf_log' = Logged("docs", ok)
    /\ UNCHANGED <<plan_vars, asm_vars, remap_vars, wf_args,
                   transcript_exists, chapters_path, embed_remapped>>

NextFlow ==
    \/ FlowValidate
    \/ FlowTranscribe
    \/ FlowDetect
    \/ FlowClean
    \/ FlowEditJob
    \/ FlowCleanReturns
    \/ FlowRemap
    \/ FlowEmbed
    \/ FlowDocs

SpecFlow == InitFlow /\ [][NextFlow]_vars

\* Candidate lists handed to generate_keep_segments, in any order: pauses
\* (start, end, duration) and fillers (start, end) within T.
PauseCandidates(T) ==
    {[start |-> a, end |-> b, duration |-> b - a] :
        <<a, b>> \in {q \in (0..T) \X (0..T) : q[1] < q[2]}}

FillerCandidates(T) ==
    {[index |-> 0, word |-> "eum", start |-> a, end |-> b] :
        <<a, b>> \in {q \in (0..T) \X (0..T) : q[1] <= q[2]}}

ListsOver(S, n) == UNION {[1..k -> S] : k \in 0..n}

\* generate_keep_segments entered with any candidate lists.
InitMerge ==
    /\ words = <<[word |-> "ne", start |-> 0, end |-> MergeMaxTime]>>
    /\ video_exists = TRUE
    /\ chapters_file \in ChapterLists
    /\ pause_threshold = 1
    /\ padding \in 0..MaxPadding
    /\ preview = TRUE
    /\ skip_indicator = SKIP_INDICATOR_DEFAULT
    /\ pc = "plan"
    /\ pauses \in ListsOver(PauseCandidates(MergeMaxTime), MergeMaxCandidates)
    /\ fillers \in ListsOver(FillerCandidates(MergeMaxTime),
                            MergeMaxCandidates)
    /\ pauses_file = NoFile
    /\ merged_removes = <<>>
    /\ keep_segments = <<>>
    /\ report_file = NoFile
    /\ exit_status = NoStatus
    /\ asm_pc = "idle"
    /\ temp_dir = FALSE
    /\ clips = <<>>
    /\ segment_files = <<>>
    /\ seg_i = 0
    /\ tool = "none"
    /\ tool_log = <<>>
    /\ concat_input = NotInvoked
    /\ output_file = [state |-> "absent", clips |-> <<>>]
    /\ ret = "none"
    /\ remapped = NoFile
    /\ youtube_file = NoFile
    /\ ffmetadata = NoFile
    /\ embed_output = "absent"
    /\ remap_status = NoStatus
    /\ remap_args = NoFile
    /\ FlowOff

\* generate_keep_segments applied to the candidate lists.
PlanCandidates ==
    /\ pc = "plan"
    /\ pc' = "planned"
    /\ merged_removes' = MergedRemoves(pauses, fillers)
    /\ keep_segments' = generate_keep_segments(words, pauses, fillers,
                                               padding, TAIL_BUFFER)
    /\ UNCHANGED <<video_exists, chapters_file, words, pause_threshold,
                   padding, preview, skip_indicator, pauses, fillers,
                   pauses_file, report_file, exit_status>>
    /\ UNCHANGED <<asm_vars, remap_vars, flow_vars>>

SpecMerge == InitMerge /\ [][PlanCandidates]_vars

\* ------------------------------------------------------------ properties
Planned == pc # "start" /\ Len(words) > 0

\* Total duration D used by the planner: the end of the last word.
TotalDuration == words[Len(words)].end

SumOver(n, f(_)) ==
    LET upTo[i \in 0..n] == IF i = 0 THEN 0 ELSE upTo[i - 1] + f(i)
    IN upTo[n]

\* Keep segments that contain the original time t.
Containing(t) ==
    {k \in 1..Len(keep_segments) :
        keep_segments[k].start <= t /\ t < keep_segments[k].end}

\* Position of t, which lies in keep segment k, in the concatenation of the
\* keep segments.
ArtifactPosition(t, k) ==
    LET before(j) == IF keep_segments[j].end <= t
                     THEN keep_segments[j].end - keep_segments[j].start
                     ELSE 0
    IN SumOver(Len(keep_segments), before) + (t - keep_segments[k].start)

\* C1: for every chapter whose original start lies inside a keep segment,
\* the new start computed from the removal record the editor wrote equals
\* the chapter's position in the concatenated artifact.
C1_RemapMatchesArtifact ==
    (remapped # NoFile /\ output_file.state = "complete") =>
        \A i \in 1..Len(remapped[1].chapters) :
            \A k \in Containing(i - 1) :
                remapped[1].chapters[i].start = ArtifactPosition(i - 1, k)

\* C2: the keep segments are sorted by start and pairwise non-overlapping:
\* each segment starts at or after the end of the previous one.
C2_KeepSegmentsDisjoint ==
    Planned =>
        \A k \in 1..(Len(keep_segments) - 1) :
            keep_segments[k + 1].start >= keep_segments[k].end

\* Cursor (current_time) in front of merged interval i, i = Len + 1 for the
\* final segment.
CursorBefore(i) ==
    IF i = 1 THEN 0 ELSE merged_removes[i - 1].end + padding

\* Where the stretch after merged interval i ends: at the next interval's
\* start, or at D after the last interval.
NextBoundary(i) ==
    IF i < Len(merged_removes) THEN merged_removes[i + 1].start
    ELSE TotalDuration

PaddingSkipped ==
    LET skipped(i) == Min(padding, NextBoundary(i) - merged_removes[i].end)
    IN SumOver(Len(merged_removes), skipped)

RemovedLength ==
    LET length(i) == merged_removes[i].end - merged_removes[i].start
    IN SumOver(Len(merged_removes), length)

RemovedMagnitude ==
    LET magnitude(i) == merged_removes[i].duration
    IN SumOver(Len(merged_removes), magnitude)

\* Length of the segment the walk emits in front of merged interval i (or
\* after the last one); 0 when it emits none.
WalkLength(i) ==
    IF i <= Len(merged_removes)
    THEN IF CursorBefore(i) < merged_removes[i].start
         THEN merged_removes[i].start - CursorBefore(i)
              + (IF merged_removes[i].type = "pause" THEN TAIL_BUFFER ELSE 0)
         ELSE 0
    ELSE IF CursorBefore(i) < TotalDuration
         THEN TotalDuration - CursorBefore(i)
         ELSE 0

TailKept ==
    LET kept(i) == IF /\ CursorBefore(i) < merged_removes[i].start
                      /\ merged_removes[i].type = "pause"
                   THEN TAIL_BUFFER ELSE 0
    IN SumOver(Len(merged_removes), kept)

DroppedDuration ==
    LET dropped(i) == IF WalkLength(i) < MIN_SEGMENT_DURATION
                      THEN WalkLength(i) ELSE 0
    IN SumOver(Len(merged_removes) + 1, dropped)

\* C3 as stated: the keep durations add up to D minus the merged intervals'
\* magnitudes minus the padding skipped after each of them.
C3_DurationConservation ==
    Planned =>
        SumOver(Len(keep_segments),
                LAMBDA k : keep_segments[k].end - keep_segments[k].start)
          = TotalDuration - RemovedMagnitude
            - padding * Len(merged_removes)

\* C3 (amended): the keep durations add up to D, minus the lengths
\* (end - start) of the merged intervals, minus the padding skipped after
\* each interval (at most up to the next interval's start, or D), plus the
\* tail buffer of every segment emitted in front of a pause interval, minus
\* the durations of the segments dropped as shorter than the minimum.
C3_DurationAccounting ==
    Planned =>
        SumOver(Len(keep_segments),
                LAMBDA k : keep_segments[k].end - keep_segments[k].start)
          = TotalDuration - RemovedLength - PaddingSkipped + TailKept
            - DroppedDuration

C3_Witness ==
    /\ Planned
    /\ Len(keep_segments) >= 1
    /\ TailKept > 0
    /\ DroppedDuration > 0
    /\ PaddingSkipped > 0
    /\ \E i \in 1..Len(merged_removes) :
          /\ merged_removes[i].type = "filler"
          /\ merged_removes[i].end > merged_removes[i].start

C5_MergedDisjointSorted ==
    Planned =>
        \A i \in 1..(Len(merged_removes) - 1) :
            merged_removes[i + 1].start > merged_removes[i].end

C5_Witness ==
    /\ Planned
    /\ Len(merged_removes) >= 2
    /\ Len(merged_removes) < Len(pauses) + Len(fillers)
    /\ \E i \in 1..Len(merged_removes) : merged_removes[i].type = "pause"

\* ------------------------------------------------- assembler properties
FailedCalls == {k \in 1..Len(tool_log) : tool_log[k].outcome # "ok"}

FailedCuts == {k \in FailedCalls : tool_log[k].op = "cut"}

\* C6: a failed cut or a failed concat makes the job report failure; after
\* a failed cut no further segment is cut and the concat is never invoked.
C6_FailureContainment ==
    /\ \A k \in FailedCalls : k = Len(tool_log)
    /\ FailedCalls # {} => tool = "none" /\ asm_pc \in {"finally", "left"}
    /\ FailedCuts # {} => concat_input = NotInvoked
    /\ (FailedCalls # {} /\ asm_pc = "left") => ret = "false"
    /\ (FailedCalls # {} /\ pc = "exit") => exit_status = 1

C6_Witness ==
    /\ pc = "exit"
    /\ exit_status = 1
    /\ \E k \in FailedCuts : tool_log[k].i + 1 < Len(keep_segments)

\* C7: a run of the assembler that ends in failure or is cancelled leaves
\* no partially written artifact at the output path.
C7_NoPartialArtifact ==
    (asm_pc = "left" /\ ret # "true") => output_file.state # "partial"

\* C8: the concat is invoked only after the cut of every keep segment has
\* succeeded, and it is given exactly one clip per keep segment, in
\* keep-segment order.
C8_ConcatBarrierAndOrder ==
    concat_input # NotInvoked =>
        /\ Len(concat_input[1]) = Len(keep_segments)
        /\ \A k \in 1..Len(keep_segments) :
              /\ concat_input[1][k] = k - 1
              /\ \E e \in 1..Len(tool_log) :
                    /\ tool_log[e].op = "cut"
                    /\ tool_log[e].i = k - 1
                    /\ tool_log[e].outcome = "ok"
              /\ asm_pc = "concat_run" =>
                    /\ (k - 1) \in DOMAIN clips
                    /\ clips[k - 1].ss = keep_segments[k].start
                    /\ clips[k - 1].t =
                          keep_segments[k].end - keep_segments[k].start

C8_Witness ==
    /\ concat_input # NotInvoked
    /\ asm_pc = "concat_run"
    /\ Len(keep_segments) >= 2

\* C9: however the assembler finishes, its temporary clip directory no
\* longer exists when edit_video_with_ffmpeg is left.
C9_TempDirRemoved ==
    asm_pc = "left" => (temp_dir = FALSE /\ DOMAIN clips = {})

C9_Witness ==
    /\ asm_pc = "left"
    /\ ret = "false"
    /\ \E k \in FailedCuts : k >= 2

\* C10: a job whose external tool never returns on its own still
\* terminates, with the failure outcome of a non-zero exit.
C10_HungToolTerminates ==
    (tool = "hung") ~> (pc = "exit" /\ exit_status = 1)

\* ------------------------------------------------- error handling
\* C11: a job whose plan has no keep segment never ends with the success
\* status, whatever the external tool returns for the empty clip list.
C11_EmptyPlanIsFatal ==
    (/\ pc = "exit"
     /\ Planned
     /\ video_exists
     /\ MonotonicStarts(words)
     /\ Len(keep_segments) = 0) => exit_status # 0

InputError ==
    \/ ~video_exists
    \/ Len(words) = 0
    \/ ~MonotonicStarts(words)

\* C12: on an input error (no words, word starts not non-decreasing, media
\* file missing) the edit job ends with an error status and has written no
\* removal record, no report and no artifact.
C12_InputErrorsWriteNothing ==
    (InputError /\ pc # "start") =>
        /\ pc = "exit"
        /\ exit_status # 0
        /\ pauses_file = NoFile
        /\ report_file = NoFile
        /\ output_file.state = "absent"

\* ------------------------------------------------- remap properties
\* The removal list the remap job works on: the recorded pauses by start.
RecordedPauses == SortByStart(pauses_file[1].pauses)

\* C13: the remap job emits one chapter per input chapter, in input order,
\* each with its new start and its unchanged original start.
C13_OneChapterPerInput ==
    remapped # NoFile =>
        /\ Len(remapped[1].chapters) = Len(chapters_file.chapters)
        /\ \A i \in 1..Len(chapters_file.chapters) :
              /\ remapped[1].chapters[i].start =
                    map_timestamp(chapters_file.chapters[i].start,
                                  RecordedPauses)
              /\ "original_start" \in DOMAIN remapped[1].chapters[i]
              /\ remapped[1].chapters[i].original_start =
                    chapters_file.chapters[i].start

\* Removals of the record that strictly contain the time t.
RemovalsAround(t) ==
    {k \in 1..Len(RecordedPauses) :
        RecordedPauses[k].start < t /\ t < RecordedPauses[k].end}

\* Sum of the magnitudes of the removals of the record that end at or
\* before t.
RemovedBefore(t) ==
    LET magnitude(k) == IF RecordedPauses[k].end <= t
                        THEN RecordedPauses[k].duration ELSE 0
    IN SumOver(Len(RecordedPauses), magnitude)

\* C14: a chapter at a time t in no removal is mapped to t minus the
\* magnitudes of the removals that end at or before t; a chapter strictly
\* inside a removal is mapped to where the removal's start is mapped.  For
\* the removal [10,15): map(50) = 45 and map(12) = 10.
C14_MapSubtractsAndSnaps ==
    /\ LET r == <<[start |-> 10, end |-> 15, duration |-> 5]>>
       IN map_timestamp(50, r) = 45 /\ map_timestamp(12, r) = 10
    /\ remapped # NoFile =>
          \A i \in 1..Len(remapped[1].chapters) :
              IF RemovalsAround(i - 1) = {}
              THEN remapped[1].chapters[i].start
                      = (i - 1) - RemovedBefore(i - 1)
              ELSE \A k \in RemovalsAround(i - 1) :
                      remapped[1].chapters[i].start =
                          remapped[1].chapters[RecordedPauses[k].start
                                               + 1].start

C14_Witness ==
    /\ remapped # NoFile
    /\ \E i \in 1..Len(remapped[1].chapters) :
          /\ RemovalsAround(i - 1) # {}
          /\ RemovedBefore(i - 1) > 0
    /\ \E i \in 1..Len(remapped[1].chapters) :
          /\ RemovalsAround(i - 1) = {}
          /\ RemovedBefore(i - 1) > 0

\* C15: a chapter that is not after the start of any removal keeps its
\* time, and with an empty removal set every time is mapped to itself.
C15_MapIdentity ==
    /\ \A t \in 0..MaxTime : map_timestamp(t, <<>>) = t
    /\ remapped # NoFile =>
          \A i \in 1..Len(remapped[1].chapters) :
              (\A k \in 1..Len(RecordedPauses) :
                    i - 1 <= RecordedPauses[k].start)
                 => remapped[1].chapters[i].start = i - 1

C15_Witness ==
    /\ remapped # NoFile
    /\ Len(RecordedPauses) >= 1
    /\ RecordedPauses[1].start > 0
    /\ remapped[1].chapters[RecordedPauses[1].start + 1].start
          = RecordedPauses[1].start

\* ------------------------------------------------- merge properties
\* Candidates merged into the merged interval m: those lying within it.
MergedInto(m) ==
    LET rr == RemoveRanges(pauses, fillers)
    IN {rr[j] : j \in {j \in 1..Len(rr) :
                          m.start <= rr[j].start /\ rr[j].end <= m.end}}

C17_FillerAudioNeverKept ==
    Planned =>
        \A k \in 1..Len(keep_segments) : \A j \in 1..Len(fillers) :
            ~(Max(keep_segments[k].start, fillers[j].start)
                < Min(keep_segments[k].end, fillers[j].end))

\* C18: in the chapter metadata the end of every chapter but the last is
\* the next chapter's start, and the end of the last chapter is the end of
\* the edited artifact.
C18_ChapterEnds ==
    ffmetadata # NoFile =>
        \A i \in 1..Len(ffmetadata[1]) :
            ffmetadata[1][i].END =
                IF i < Len(ffmetadata[1])
                THEN ffmetadata[1][i + 1].START
                ELSE Millis(SumDurations(keep_segments))

\* C19: a run with --preview creates or overwrites no file.
C19_PreviewWritesNothing ==
    preview =>
        /\ pauses_file = NoFile
        /\ report_file = NoFile
        /\ output_file.state = "absent"
        /\ temp_dir = FALSE

\* C20: every word emitted as a filler removal candidate is one of the
\* three documented clear fillers.
C20_OnlyDocumentedFillers ==
    \A j \in 1..Len(fillers) : fillers[j].word \in DOCUMENTED_FILLERS

\* ------------------------------------------------- planner properties
\* C21: no merged interval and no keep segment starts before 0 or ends
\* after the total duration D.
C21_WithinTotalDuration ==
    Planned =>
        /\ \A i \in 1..Len(merged_removes) :
              /\ 0 <= merged_removes[i].start
              /\ merged_removes[i].end <= TotalDuration
        /\ \A k \in 1..Len(keep_segments) :
              /\ 0 <= keep_segments[k].start
              /\ keep_segments[k].end <= TotalDuration

\* The walk reaches position i (merged interval i, or the end of the
\* timeline for i = Len + 1) with the cursor in front of it.
Emitted(i) ==
    CursorBefore(i) <
        (IF i <= Len(merged_removes) THEN merged_removes[i].start
         ELSE TotalDuration)

\* Tag of a segment emitted at position i: the magnitude of the removal
\* processed immediately before, when that removal is a pause.
ExpectedTag(i) ==
    IF i > 1 /\ merged_removes[i - 1].type = "pause"
    THEN merged_removes[i - 1].duration ELSE 0

ExpectedSegment(i) ==
    [start |-> CursorBefore(i),
     end |-> IF i <= Len(merged_removes)
             THEN IF merged_removes[i].type = "pause"
                  THEN merged_removes[i].start + TAIL_BUFFER
                  ELSE merged_removes[i].start
             ELSE TotalDuration,
     pause_dur |-> ExpectedTag(i)]

\* C23: every keep segment is the segment of the walk rule at a position
\* the cursor is in front of (end at r.start + tail buffer before a pause,
\* at r.start before a filler; tag from the removal just processed; cursor
\* r.end + padding), and every such segment of at least the minimum
\* duration is a keep segment.  Words [(0,1),(4.5,5)], threshold 1.0,
\* padding 0.1, tail buffer 0.15 give [(0,1.15,0),(4.6,5,3.5)].
C23_PlannerWalk ==
    /\ LET ws == <<[word |-> "ne", start |-> 0, end |-> 20],
                   [word |-> "ne", start |-> 90, end |-> 100]>>
       IN generate_keep_segments(ws, identify_pauses(ws, 20),
                                 identify_filler_words(ws), 2, 3)
             = <<[start |-> 0, end |-> 23, pause_dur |-> 0],
                 [start |-> 92, end |-> 100, pause_dur |-> 70]>>
    /\ Planned =>
          /\ \A k \in 1..Len(keep_segments) :
                \E i \in 1..(Len(merged_removes) + 1) :
                    Emitted(i) /\ keep_segments[k] = ExpectedSegment(i)
          /\ \A i \in 1..(Len(merged_removes) + 1) :
                (/\ Emitted(i)
                 /\ ExpectedSegment(i).end - ExpectedSegment(i).start
                       >= MIN_SEGMENT_DURATION)
                => \E k \in 1..Len(keep_segments) :
                      keep_segments[k] = ExpectedSegment(i)

C23_Witness ==
    /\ Planned
    /\ padding > 0
    /\ \E k \in 1..Len(keep_segments) : keep_segments[k].pause_dur > 0
    /\ \E i \in 1..Len(merged_removes) :
          merged_removes[i].type = "filler" /\ Emitted(i)
    /\ \E i \in 1..(Len(merged_removes) + 1) : ~Emitted(i)

\* The segments of the walk, before the minimum-duration filter, in order.
WalkList ==
    LET upTo[i \in 0..(Len(merged_removes) + 1)] ==
            IF i = 0 THEN <<>>
            ELSE IF Emitted(i) THEN Append(upTo[i - 1], ExpectedSegment(i))
                 ELSE upTo[i - 1]
    IN upTo[Len(merged_removes) + 1]

AtLeastMinimum(seg) == seg.end - seg.start >= MIN_SEGMENT_DURATION

\* C24: every keep segment lasts at least the minimum duration, the keep
\* segments are exactly the walk's segments of at least that duration, in
\* their order, and a job with a dropped segment and a surviving one fails
\* only on a failed or interrupted external call.
C24_OnlyDegenerateDropped ==
    Planned =>
        /\ \A k \in 1..Len(keep_segments) : AtLeastMinimum(keep_segments[k])
        /\ keep_segments = SelectSeq(WalkList, AtLeastMinimum)
        /\ (/\ pc = "exit"
            /\ Len(keep_segments) >= 1
            /\ Len(keep_segments) < Len(WalkList)
            /\ exit_status # 0)
           => (FailedCalls # {} \/ ret = "interrupt")

C24_Witness ==
    /\ pc = "exit"
    /\ exit_status = 0
    /\ Len(keep_segments) >= 1
    /\ Len(keep_segments) < Len(WalkList)

\* ------------------------------------------------- detection properties
\* Adjacent word pairs (by the index of the first word) whose gap is at
\* least the threshold.
PausePairs ==
    {i \in 1..(Len(words) - 1) :
        words[i + 1].start - words[i].end >= pause_threshold}

\* Words whose stripped text is in the filler set.
FillerWords ==
    {i \in 1..Len(words) : strip(words[i].word) \in CLEAR_FILLERS}

\* The k-th smallest element of a set of numbers.
NthOf(S, k) == CHOOSE i \in S : Cardinality({j \in S : j <= i}) = k

Detected == pc # "start" /\ video_exists /\ Len(words) > 0

Orderings(s) ==
    {[i \in 1..Len(s) |-> s[f[i]]] :
        f \in {g \in [1..Len(s) -> 1..Len(s)] :
                  \A a, b \in 1..Len(s) : a # b => g[a] # g[b]}}

\* C26: whatever the order in which the same pause candidates and the same
\* filler candidates are given, the merged intervals (with kinds and
\* magnitudes) and the keep segments are the same.
C26_MergeOrderIndependent ==
    pc = "planned" =>
        \A ps \in Orderings(pauses) : \A fs \in Orderings(fillers) :
            /\ MergedRemoves(ps, fs) = merged_removes
            /\ generate_keep_segments(words, ps, fs, padding, TAIL_BUFFER)
                  = keep_segments

C26_Witness ==
    /\ pc = "planned"
    /\ Len(pauses) = 2
    /\ pauses[1].start = pauses[2].start
    /\ pauses[1].duration > pauses[2].duration
    /\ Len(fillers) = 2
    /\ fillers[1].start > fillers[2].end
    /\ Len(merged_removes) >= 1
    /\ Len(keep_segments) >= 1

\* C29: every detected pause that reaches the skip-indicator threshold and
\* is followed by kept content has its duration as the preceding-pause tag
\* of a keep segment that starts at or after its end.
C29_LongPauseAnnounced ==
    (Planned /\ skip_indicator > 0) =>
        \A j \in 1..Len(pauses) :
            (/\ pauses[j].duration >= skip_indicator
             /\ \E k \in 1..Len(keep_segments) :
                   keep_segments[k].start >= pauses[j].end)
            => \E k \in 1..Len(keep_segments) :
                  /\ keep_segments[k].start >= pauses[j].end
                  /\ keep_segments[k].pause_dur = pauses[j].duration

\* ------------------------------------------------- workflow properties
\* C22: in a workflow run with a non-empty removal record, the start of
\* every chapter embedded into the final video is the map of the chapter's
\* original start, taken once.
C22_RemappedOnce ==
    (/\ wf_pc # "off"
     /\ ffmetadata # NoFile
     /\ chapters_path # NoFile
     /\ pauses_file # NoFile
     /\ Len(pauses_file[1].pauses) > 0)
    => \A i \in 1..Len(ffmetadata[1]) :
          ffmetadata[1][i].START =
              Millis(map_timestamp(chapters_path[1].chapters[i].start,
                                   SortByStart(pauses_file[1].pauses)))

\* The remap job has run on a removal record without pauses.
EmptyRecordRemapped ==
    /\ remap_status # NoStatus
    /\ Len(pauses_file[1].pauses) = 0

\* C27: on a removal record without pauses the remap job ends without
\* error (status 0 unless the named video is missing), writes every output
\* it was asked for, and leaves every chapter start as it was.
C27_EmptyRecordHandled ==
    EmptyRecordRemapped =>
        /\ ~remap_args[1].video => remap_status = 0
        /\ remap_args[1].youtube => youtube_file # NoFile
        /\ (remap_args[1].video /\ output_file.state # "absent")
              => ffmetadata # NoFile
        /\ remapped # NoFile
        /\ \A i \in 1..Len(chapters_file.chapters) :
              remapped[1].chapters[i].start = chapters_file.chapters[i].start

\* C28: every [CHAPTER] entry of the metadata file has END >= START, and
\* the entries have non-decreasing START.
C28_WellFormedMetadata ==
    ffmetadata # NoFile =>
        \A i \in 1..Len(ffmetadata[1]) :
            /\ ffmetadata[1][i].END >= ffmetadata[1][i].START
            /\ i < Len(ffmetadata[1]) =>
                  ffmetadata[1][i].START <= ffmetadata[1][i + 1].START

\* Position of a script in the documented step order.
StepRank(script) ==
    CASE script = "transcribe" -> 1
      [] script = "detect" -> 2
      [] script = "clean" -> 3
      [] script = "remap" -> 4
      [] script = "embed" -> 5
      [] script = "docs" -> 6

FatalSteps == {"transcribe", "clean"}

FailedFatally(i) == wf_log[i].script \in FatalSteps /\ ~wf_log[i].ok

\* C30: the launched scripts follow the step order; a failed transcription
\* or cleaning is the last script launched and the workflow has ended with
\* a non-zero status; the workflow ends with a non-zero status only for a
\* missing video or transcript or such a failure (a failed detection,
\* remapping, embedding or doc generation neither ends it nor changes its
\* status); detection and cleaning are launched only when the transcript
\* exists.
C30_StepRouting ==
    /\ \A i, j \in 1..Len(wf_log) :
          i < j => StepRank(wf_log[i].script) < StepRank(wf_log[j].script)
    /\ \A i \in 1..Len(wf_log) :
          FailedFatally(i) =>
              /\ i = Len(wf_log)
              /\ wf_pc = "done"
              /\ wf_status \notin {0, NoStatus}
    /\ (wf_pc = "done" /\ wf_status # 0) =>
          \/ ~video_exists
          \/ ~transcript_exists
          \/ Len(wf_log) > 0 /\ FailedFatally(Len(wf_log))
    /\ \A i \in 1..Len(wf_log) :
          wf_log[i].script \in {"detect", "clean"} => transcript_exists

====
